---------------------------- MODULE Spec2Model ----------------------------
(***************************************************************************)
(* CenteredScrollingPlayer (wavefile.py): the sliding-window waveform      *)
(* renderer, the audio/image loaders and the play/pause wiring, as a      *)
(* state machine.                                                          *)
(*                                                                         *)
(* Python floats are modelled by exact rationals <<num, den>> (den > 0,    *)
(* lowest terms); the sample amplitudes used are dyadic, so the float32    *)
(* cast of process_audio is exact on them.  Optional values are            *)
(* sequences: None is << >> and a present value x is <<x>>.                *)
(***************************************************************************)
EXTENDS Integers, Sequences, FiniteSets, TLC

\* ------------------------------------------------------------- bounds
\* positions delivered to update_plot are the multiples k * PosStep (ms)
PosStep == 4500
MaxPosSteps == 4
\* number of samples of the long recording
SongLen == 12

\* ------------------------------------------------- optional values
None == << >>
Some(x) == <<x>>
IsNone(o) == o = << >>
Val(o) == o[1]

\* ------------------------------------------------- float arithmetic
Abs(n) == IF n < 0 THEN -n ELSE n

RECURSIVE GCD(_, _)
GCD(a, b) == IF b = 0 THEN a ELSE GCD(b, a % b)

\* the rational n/d in lowest terms with a positive denominator (d # 0)
Q(n, d) ==
    LET g == GCD(Abs(n), Abs(d))
        sgn == IF d < 0 THEN -1 ELSE 1
    IN  <<(sgn * n) \div g, (sgn * d) \div g>>

R(n) == <<n, 1>>
RAdd(a, b) == Q(a[1] * b[2] + b[1] * a[2], a[2] * b[2])
RSub(a, b) == Q(a[1] * b[2] - b[1] * a[2], a[2] * b[2])
RMul(a, b) == Q(a[1] * b[1], a[2] * b[2])
RDiv(a, b) == Q(a[1] * b[2], a[2] * b[1])
RNeg(a) == <<-a[1], a[2]>>
RLe(a, b) == a[1] * b[2] <= b[1] * a[2]
RLt(a, b) == a[1] * b[2] < b[1] * a[2]
RMax(a, b) == IF RLe(a, b) THEN b ELSE a
RAbs(a) == <<Abs(a[1]), a[2]>>
\* Python's int(x): truncation toward zero
ToInt(a) == IF a[1] >= 0 THEN a[1] \div a[2] ELSE -((-a[1]) \div a[2])

Max(a, b) == IF a >= b THEN a ELSE b
Min(a, b) == IF a <= b THEN a ELSE b

\* samples[start:end] of Python: both ends clipped to the sequence
Slice(seq, start, end) ==
    LET lo == Min(Max(start, 0), Len(seq))
        hi == Min(Max(end, 0), Len(seq))
    IN  IF hi <= lo THEN << >> ELSE SubSeq(seq, lo + 1, hi)

RECURSIVE MaxAbs(_)
\* np.max(np.abs(visible)) of a non-empty sequence
MaxAbs(seq) ==
    IF Len(seq) = 1 THEN RAbs(seq[1])
    ELSE RMax(RAbs(seq[1]), MaxAbs(Tail(seq)))

\* np.linspace(a, b, n) for n >= 2
Linspace(a, b, n) ==
    [i \in 1..n |-> RAdd(a, RMul(Q(i - 1, n - 1), RSub(b, a)))]

\* ------------------------------------------------- program constants
window_sec == R(10)
half_window == RDiv(window_sec, R(2))
margin == Q(1, 10)

\* ------------------------------------------------- the files on disk
\* (what the external decoders and the image library answer for a path)

\* the long recording: a loud opening, then a quiet tail
Song == [i \in 1..SongLen |->
            IF i <= 6 THEN (IF i % 2 = 1 THEN Q(1, 2) ELSE Q(-1, 4)) ELSE Q(1, 8)]

AudioPaths == {"song.wav", "silence.wav", "click.wav", "voice.m4a", "notes.txt"}

\* librosa.load(path, sr=None, mono=True): << >> when it raises, else <<[y, sr]>>
librosa_load(path) ==
    CASE path = "song.wav"    -> Some([y |-> Song, sr |-> 1])
      [] path = "silence.wav" -> Some([y |-> [i \in 1..6 |-> R(0)], sr |-> 2])
      [] path = "click.wav"   -> Some([y |-> <<Q(1, 2)>>, sr |-> 1])
      [] OTHER                -> None

\* AudioFileClip(path) with its fps and to_soundarray(): << >> when it raises,
\* else <<[arr, fps]>>, arr a sequence of frames, one value per channel
AudioFileClip(path) ==
    CASE path = "song.wav"    ->
            Some([arr |-> [i \in 1..SongLen |-> <<Song[i], Song[i]>>], fps |-> R(1)])
      [] path = "voice.m4a"   ->
            Some([arr |-> [i \in 1..8 |->
                              IF i <= 4 THEN <<Q(1, 2), Q(1, 4)>> ELSE <<R(0), Q(-1, 4)>>],
                  fps |-> R(2)])
      [] path = "click.wav"   -> Some([arr |-> <<<<Q(1, 2)>>>>, fps |-> R(1)])
      [] OTHER                -> None

ImagePaths == {"wide.png", "tall.jpg"}

\* Image.open(path): the pixel size (iw, ih) and the colours of the 64x64 thumbnail
\* as getcolors returns them, <<count, (r, g, b)>>
ImageFile(path) ==
    IF path = "wide.png"
    THEN [size |-> <<8, 1>>,
          colors |-> << <<1000, <<10, 20, 30>> >>, <<3096, <<250, 240, 200>> >> >>]
    ELSE [size |-> <<1, 2>>,
          colors |-> << <<2048, <<0, 0, 128>> >>, <<2048, <<255, 255, 255>> >> >>]

Positions == {k * PosStep : k \in 0..MaxPosSteps}

\* ------------------------------------------------- process_audio
RECURSIVE Sum(_)
Sum(seq) == IF seq = << >> THEN R(0) ELSE RAdd(seq[1], Sum(Tail(seq)))

\* arr.mean(axis=1): the mean over the channels of each frame
MeanChannels(arr) == [i \in 1..Len(arr) |-> RDiv(Sum(arr[i]), R(Len(arr[i])))]

\* the except branch: the moviepy fallback.  calls lists the decoders tried.
Fallback(path, calls) ==
    LET clip == AudioFileClip(path)
        tried == Append(calls, "moviepy")
    IN  IF IsNone(clip)
        THEN [samples |-> None, sr |-> None, calls |-> tried]
        ELSE [samples |-> Some(MeanChannels(Val(clip).arr)),
              sr |-> Some(ToInt(Val(clip).fps)),
              calls |-> tried]

process_audio_AlwaysFallback(path) == Fallback(path, <<"librosa">>)

process_audio(path) ==
    LET first == librosa_load(path)
        calls == <<"librosa">>
    IN  IF ~IsNone(first)
        THEN [samples |-> Some(Val(first).y), sr |-> Some(Val(first).sr), calls |-> calls]
        ELSE Fallback(path, calls)

\* ------------------------------------------------- QSlider (Qt): values are kept in range
Clamp(v, lo, hi) == Max(lo, Min(v, hi))
setMinimum(sl, m) ==
    [min |-> m, max |-> Max(sl.max, m), value |-> Clamp(sl.value, m, Max(sl.max, m))]
setMaximum(sl, m) ==
    [min |-> Min(sl.min, m), max |-> m, value |-> Clamp(sl.value, Min(sl.min, m), m)]
setValue(sl, v) == [sl EXCEPT !.value = Clamp(v, sl.min, sl.max)]

\* ------------------------------------------------- QMediaPlayer (Qt)
\* setSource stops playback.  The playback position stays with the media
\* subsystem: the model keeps no copy of it, and positionChanged may report
\* any position.
setSource(pl, path) == [source |-> path, state |-> "Stopped"]
\* play() without a source leaves the player stopped
play(pl) == IF pl.source = "" THEN pl ELSE [pl EXCEPT !.state = "Playing"]
pause(pl) == [pl EXCEPT !.state = "Paused"]

\* the duration (ms) the player reports for a source once it has loaded it
MediaDuration(path) ==
    CASE path = "song.wav"    -> SongLen * 1000
      [] path = "silence.wav" -> 3000
      [] path = "click.wav"   -> 1000
      [] path = "voice.m4a"   -> 4000
      [] OTHER                -> 0

\* ------------------------------------------------- _place_background
TargetSize_Stretched(img_ratio, axis_w, axis_h) ==
    IF RLe(RDiv(axis_w, axis_h), img_ratio)
    THEN <<axis_w, RDiv(axis_w, img_ratio)>>
    ELSE <<axis_w, axis_h>>

\* (target_w, target_h): the image fitted to the axes, its ratio kept
TargetSize(img_ratio, axis_w, axis_h) ==
    LET axis_ratio == RDiv(axis_w, axis_h)
    IN  IF RLe(axis_ratio, img_ratio)
        THEN <<axis_w, RDiv(axis_w, img_ratio)>>
        ELSE <<RMul(axis_h, img_ratio), axis_h>>

\* (x0_img, x1_img, y0_img, y1_img): the target centred in the axes
Extent(x0, y0, axis_w, axis_h, target) ==
    LET x0_img == RAdd(x0, RDiv(RSub(axis_w, target[1]), R(2)))
        y0_img == RAdd(y0, RDiv(RSub(axis_h, target[2]), R(2)))
    IN  <<x0_img, RAdd(x0_img, target[1]), y0_img, RAdd(y0_img, target[2])>>

ImgRatio(size) == IF size[2] # 0 THEN Q(size[1], size[2]) ELSE R(1)

AxisH(ylim) ==
    IF RSub(ylim[2], ylim[1]) # R(0) THEN RSub(ylim[2], ylim[1]) ELSE R(1)

_place_background(s) ==
    IF IsNone(s.bg_pil) THEN s
    ELSE LET axis_w == RSub(s.xlim[2], s.xlim[1])
             axis_h == AxisH(s.ylim)
             target == TargetSize(ImgRatio(Val(s.bg_pil)), axis_w, axis_h)
         IN  [s EXCEPT !.bg_image =
                 Some(Extent(s.xlim[1], s.ylim[1], axis_w, axis_h, target))]

\* ------------------------------------------------- update_plot
StartSec_Unclamped(current_sec) == RSub(current_sec, half_window)
StartSec(current_sec) == RMax(R(0), RSub(current_sec, half_window))
EndSec(start_sec) == RAdd(start_sec, window_sec)
StartIdx(start_sec, sr) == Max(0, ToInt(RMul(start_sec, R(sr))))
EndIdx_Unclamped(end_sec, sr, n) == ToInt(RMul(end_sec, R(sr)))
EndIdx(end_sec, sr, n) == Min(n, ToInt(RMul(end_sec, R(sr))))

VerticalFill_NoMargin(ylim, amp_max) ==
    IF RLt(R(0), amp_max) THEN <<RNeg(amp_max), amp_max>> ELSE ylim

\* set_ylim of the dynamic vertical fill (ylim is left alone when amp_max is 0)
VerticalFill(ylim, amp_max) ==
    IF RLt(R(0), amp_max)
    THEN <<RNeg(RMul(amp_max, RAdd(R(1), margin))), RMul(amp_max, RAdd(R(1), margin))>>
    ELSE ylim

\* what the last call of update_plot computed (its locals), for the properties
NoCall == [outcome |-> "none", pos |-> 0, start_idx |-> 0, end_idx |-> 0,
           n |-> 0, visible |-> << >>, ylim_before |-> <<R(0), R(0)>>]

\* the statements after the two early returns
Render(s, pos_ms, start_sec, start_idx, visible) ==
    LET current_sec == Q(pos_ms, 1000)
        sr == Val(s.sr)
        t == Linspace(Q(start_idx, sr), Q(start_idx + Len(visible), sr), Len(visible))
        s1 == [s EXCEPT !.line = [t |-> t, y |-> visible],
                        !.xlim = <<start_sec, EndSec(start_sec)>>,
                        !.playhead = current_sec]
        s2 == _place_background(s1)
    IN  [s2 EXCEPT !.ylim = VerticalFill(s2.ylim, MaxAbs(visible)),
                   !.slider = setValue(s2.slider, pos_ms)]

Return_AfterSlider(s, pos_ms) == [s EXCEPT !.slider = setValue(s.slider, pos_ms)]

\* the two early returns: nothing is touched
Return(s, pos_ms) == s

update_plot(s, pos_ms) ==
    IF IsNone(s.samples)
    THEN Return([s EXCEPT !.upd = [NoCall EXCEPT !.outcome = "no_buffer", !.pos = pos_ms,
                                                !.ylim_before = s.ylim]], pos_ms)
    ELSE LET samples == Val(s.samples)
             start_sec == StartSec(Q(pos_ms, 1000))
             start_idx == StartIdx(start_sec, Val(s.sr))
             end_idx == EndIdx(EndSec(start_sec), Val(s.sr), Len(samples))
             visible == Slice(samples, start_idx, end_idx)
             locals == [outcome |-> IF Len(visible) < 2 THEN "short" ELSE "rendered",
                        pos |-> pos_ms, start_idx |-> start_idx, end_idx |-> end_idx,
                        n |-> Len(samples), visible |-> visible,
                        ylim_before |-> s.ylim]
             s0 == [s EXCEPT !.upd = locals]
         IN  IF Len(visible) < 2 THEN Return(s0, pos_ms)
             ELSE Render(s0, pos_ms, start_sec, start_idx, visible)

\* ------------------------------------------------- images and theme
\* raised: an exception left the call.  fail names where the libraries raise:
\* "open" (Image.open/convert/resize of the theme), "theme" (a matplotlib setter,
\* after the axes face colour is set), "background" (Image.open/np.asarray of
\* apply_background_image), "none".
FailPoints == {"none", "open", "theme", "background"}

apply_background_image(s, img_path, fail) ==
    IF fail = "background" THEN [s |-> s, raised |-> TRUE]
    ELSE [s |-> _place_background([s EXCEPT !.bg_pil = Some(ImageFile(img_path).size),
                                            !.bg_image = None]),
          raised |-> FALSE]

RECURSIVE Dominant(_)
\* result.sort(key=count, reverse=True)[0][1]: the first colour of the largest count
Dominant(result) ==
    IF Len(result) = 1 THEN result[1]
    ELSE LET rest == Dominant(Tail(result))
         IN  IF result[1][1] >= rest[1] THEN result[1] ELSE rest

\* mean(samples ** 2); rms is its square root
MeanSquare(samples) ==
    IF Len(samples) = 0 THEN R(0)
    ELSE RDiv(Sum([i \in 1..Len(samples) |-> RMul(samples[i], samples[i])]),
              R(Len(samples)))

Luminance(rgb) ==
    RAdd(RAdd(RMul(Q(2126, 10000), rgb[1]), RMul(Q(7152, 10000), rgb[2])),
         RMul(Q(722, 10000), rgb[3]))

apply_theme_from_image(s, img_path, fail) ==
    IF fail = "open" THEN [s |-> s, raised |-> TRUE]
    ELSE
    LET result == ImageFile(img_path).colors
    IN  IF Len(result) = 0 THEN [s |-> s, raised |-> FALSE]
        ELSE
        LET dominant == Dominant(result)[2]
            dom_rgb == [i \in 1..3 |-> Q(dominant[i], 255)]
            rms_sq == IF IsNone(s.samples) THEN R(0) ELSE MeanSquare(Val(s.samples))
            dark == RLt(Luminance(dom_rgb), Q(1, 2))
            bg_color == IF dark THEN <<R(1), R(1), R(1)>> ELSE <<R(0), R(0), R(0)>>
            text_color == IF dark THEN "black" ELSE "white"
            s1 == [s EXCEPT !.theme.ax_face = bg_color]
            s2 == [s1 EXCEPT !.theme.fig_face = bg_color,
                             !.theme.text = text_color,
                             !.theme.line = [rgb |-> dom_rgb, silent |-> rms_sq = R(0)]]
        IN  IF fail = "theme" THEN [s |-> s1, raised |-> TRUE]
            ELSE [s |-> apply_background_image(s2, img_path, fail).s,
                  raised |-> FALSE]

ImageStatus_AlwaysApplied(raised, path, fail) == <<"Image applied", path>>

\* the try/except of load_image (a chosen path)
ImageStatus(raised, path, fail) ==
    IF raised THEN <<"Failed to apply image", fail>> ELSE <<"Image applied", path>>

load_image(s, path, fail) ==
    IF path = "" THEN s
    ELSE LET r == apply_theme_from_image(s, path, fail)
         IN  [r.s EXCEPT !.status = ImageStatus(r.raised, path, fail)]

\* ------------------------------------------------- load_file
DurationMs(n, sr) == ToInt(RMul(Q(n, sr), R(1000)))

Install_KeepsSource(s, path, samples, sr) ==
    update_plot([s EXCEPT !.samples = Some(samples),
                          !.sr = Some(sr),
                          !.slider = setValue(setMaximum(setMinimum(s.slider, 0),
                                         DurationMs(Len(samples), sr)), 0),
                          !.status = <<"Loaded", path>>], 0)

\* lines 117-128: the decoded audio replaces the buffer
Install(s, path, samples, sr) ==
    LET d == DurationMs(Len(samples), sr)
        s1 == [s EXCEPT !.samples = Some(samples),
                        !.sr = Some(sr),
                        !.player = setSource(s.player, path),
                        !.slider = setValue(setMaximum(setMinimum(s.slider, 0), d), 0),
                        !.status = <<"Loaded", path>>]
    IN  update_plot(s1, 0)

load_file_AssignFirst(s, path) ==
    IF path = "" THEN s
    ELSE LET r == process_audio(path)
         IN  IF IsNone(r.samples)
             THEN [s EXCEPT !.samples = None, !.sr = None,
                            !.status = <<"Failed to load", path>>]
             ELSE Install(s, path, Val(r.samples), Val(r.sr))

load_file(s, path) ==
    IF path = "" THEN s
    ELSE LET r == process_audio(path)
         IN  IF IsNone(r.samples)
             THEN [s EXCEPT !.status = <<"Failed to load", path>>]
             ELSE Install(s, path, Val(r.samples), Val(r.sr))

\* ------------------------------------------------- __init__ and __main__
Construct(samples, sr) ==
    LET s == [samples |-> samples, sr |-> sr,
              xlim |-> <<R(0), window_sec>>,
              ylim |-> <<Q(-11, 10), Q(11, 10)>>,
              line |-> [t |-> << >>, y |-> << >>],
              playhead |-> R(0),
              slider |-> [min |-> 0, max |-> 99, value |-> 0],
              status |-> <<"Load an audio file", "">>,
              player |-> [source |-> "", state |-> "Stopped"],
              bg_pil |-> None, bg_image |-> None,
              theme |-> [ax_face |-> <<R(0), R(0), R(0)>>,
                         fig_face |-> <<R(1), R(1), R(1)>>,
                         text |-> "white",
                         line |-> [rgb |-> <<R(0), R(1), R(1)>>, silent |-> FALSE]],
              upd |-> NoCall]
    IN  IF ~IsNone(samples) /\ ~IsNone(sr)
        THEN update_plot(
                 [s EXCEPT !.slider = setValue(setMaximum(setMinimum(s.slider, 0),
                                DurationMs(Len(Val(samples)), Val(sr))), 0)], 0)
        ELSE s

\* the script: decode the chosen file, build the window, set the source, then
\* the optional background image (img_path "" when the dialog is cancelled)
Main(path, img_path, fail) ==
    LET r == process_audio(path)
        win == Construct(r.samples, r.sr)
        shown == [win EXCEPT !.player = setSource(win.player, path)]
    IN  IF img_path = "" THEN shown
        ELSE apply_background_image(shown, img_path, fail).s

\* ------------------------------------------------- state
VARIABLES
    samples,    \* self.samples: None or the buffer
    sr,         \* self.sr: None or the sample rate
    xlim,       \* ax.get_xlim(), seconds
    ylim,       \* ax.get_ylim()
    line,       \* self.line's data (t, y)
    playhead,   \* self.playhead's x, seconds
    slider,     \* self.slider: minimum, maximum, value (ms)
    status,     \* self.status's text
    player,     \* self.player: source and playback state
    bg_pil,     \* self.bg_pil: None or the image's (iw, ih)
    bg_image,   \* self.bg_image: None or the artist's extent
    theme,      \* colours of the axes, figure, text and line
    upd,        \* the locals of the last update_plot call
    last        \* the last handler run, its inputs and what it did

vars == <<samples, sr, xlim, ylim, line, playhead, slider, status, player,
          bg_pil, bg_image, theme, upd, last>>

Self ==
    [samples |-> samples, sr |-> sr, xlim |-> xlim, ylim |-> ylim, line |-> line,
     playhead |-> playhead, slider |-> slider, status |-> status, player |-> player,
     bg_pil |-> bg_pil, bg_image |-> bg_image, theme |-> theme, upd |-> upd]

Commit(s) ==
    /\ samples' = s.samples
    /\ sr' = s.sr
    /\ xlim' = s.xlim
    /\ ylim' = s.ylim
    /\ line' = s.line
    /\ playhead' = s.playhead
    /\ slider' = s.slider
    /\ status' = s.status
    /\ player' = s.player
    /\ bg_pil' = s.bg_pil
    /\ bg_image' = s.bg_image
    /\ theme' = s.theme
    /\ upd' = s.upd

Handler(op) ==
    [op |-> op, path |-> "", fail |-> "none", calls |-> << >>,
     assigned |-> FALSE, state_before |-> player.state]

Started(s) ==
    /\ samples = s.samples
    /\ sr = s.sr
    /\ xlim = s.xlim
    /\ ylim = s.ylim
    /\ line = s.line
    /\ playhead = s.playhead
    /\ slider = s.slider
    /\ status = s.status
    /\ player = s.player
    /\ bg_pil = s.bg_pil
    /\ bg_image = s.bg_image
    /\ theme = s.theme
    /\ upd = s.upd

\* the window as the script leaves it when the event loop starts, or as the bare
\* constructor CenteredScrollingPlayer() leaves it (path "")
Init ==
    \E path \in AudioPaths \cup {""}, img_path \in ImagePaths \cup {""} :
        /\ \/ path = "" /\ img_path = ""
           \/ path # "" /\ ~IsNone(process_audio(path).samples)
        /\ Started(IF path = "" THEN Construct(None, None)
                   ELSE Main(path, img_path, "none"))
        /\ last = [op |-> "init", path |-> path, fail |-> "none",
                   calls |-> << >>, assigned |-> FALSE, state_before |-> "Stopped"]

\* ------------------------------------------------- handlers
\* File > Load Audio (path "" when the dialog is cancelled)
LoadFile ==
    \E path \in AudioPaths \cup {""} :
        /\ Commit(load_file(Self, path))
        /\ last' = [Handler("load_file") EXCEPT
                        !.path = path,
                        !.calls = IF path = "" THEN << >> ELSE process_audio(path).calls,
                        !.assigned = path # "" /\ ~IsNone(process_audio(path).samples)]

\* the Load Image button
LoadImage ==
    \E path \in ImagePaths \cup {""}, fail \in FailPoints :
        /\ Commit(load_image(Self, path, fail))
        /\ last' = [Handler("load_image") EXCEPT !.path = path, !.fail = fail]

toggle_play(s) ==
    IF s.player.state = "Playing"
    THEN [s EXCEPT !.player = pause(s.player)]
    ELSE [s EXCEPT !.player = play(s.player)]

TogglePlay ==
    /\ Commit(toggle_play(Self))
    /\ last' = Handler("toggle_play")

\* player.positionChanged -> update_plot: the media subsystem reports a new position
PositionChanged ==
    \E p \in Positions :
        /\ player.source # ""
        /\ Commit(update_plot(Self, p))
        /\ last' = Handler("positionChanged")

\* slider.sliderMoved -> player.setPosition(p), which reports the new position
sliderMoved(s, p) ==
    LET s1 == [s EXCEPT !.slider = setValue(s.slider, p)]
    IN  IF s.player.source # "" THEN update_plot(s1, p) ELSE s1

SliderMoved ==
    \E p \in Positions :
        /\ slider.min <= p /\ p <= slider.max
        /\ Commit(sliderMoved(Self, p))
        /\ last' = Handler("sliderMoved")

\* player.durationChanged -> slider.setMaximum(d)
DurationChanged ==
    /\ player.source # ""
    /\ Commit([Self EXCEPT !.slider = setMaximum(slider, MediaDuration(player.source))])
    /\ last' = Handler("durationChanged")

\* the media subsystem reaches the end of the media: playback stops
EndOfMedia ==
    /\ player.state = "Playing"
    /\ Commit([Self EXCEPT !.player.state = "Stopped"])
    /\ last' = Handler("endOfMedia")

\* canvas resize_event
ResizeEvent ==
    /\ Commit(IF ~IsNone(bg_pil) THEN _place_background(Self) ELSE Self)
    /\ last' = Handler("resize_event")

Next ==
    \/ LoadFile
    \/ LoadImage
    \/ TogglePlay
    \/ PositionChanged
    \/ SliderMoved
    \/ DurationChanged
    \/ EndOfMedia
    \/ ResizeEvent

Spec == Init /\ [][Next]_vars

\* The handlers that run update_plot or change what it reads; the image, when
\* there is one, is the one the script placed.
NextRender ==
    \/ LoadFile
    \/ PositionChanged
    \/ SliderMoved
    \/ DurationChanged
    \/ ResizeEvent

SpecRender == Init /\ [][NextRender]_vars

\* The handlers that replace the buffer or change the playback state.
NextPlayback ==
    \/ LoadFile
    \/ TogglePlay
    \/ EndOfMedia
    \/ PositionChanged

SpecPlayback == Init /\ [][NextPlayback]_vars

\* The image handlers, over every audio and playback state.
NextImage ==
    \/ LoadImage
    \/ TogglePlay
    \/ EndOfMedia
    \/ ResizeEvent

SpecImage == Init /\ [][NextImage]_vars

\* ------------------------------------------------- properties
Called == upd.outcome \in {"short", "rendered"}
Rendered == upd.outcome = "rendered"
\* the handlers that end with a call of update_plot
AfterUpdatePlot ==
    /\ last.op \in {"positionChanged", "sliderMoved", "load_file"}
    /\ upd.outcome # "none"

\* C1 as stated: for every position, 0 <= start_idx, end_idx <= N and
\* end_idx >= start_idx
C1_Original ==
    Called =>
        /\ 0 <= upd.start_idx /\ upd.start_idx <= upd.n
        /\ 0 <= upd.end_idx /\ upd.end_idx <= upd.n
        /\ upd.end_idx >= upd.start_idx

\* C1 amended: start_idx is clamped below only and end_idx above only:
\* 0 <= start_idx and 0 <= end_idx <= N for every position; end_idx >= start_idx
\* exactly when start_idx <= N, and start_idx < end_idx <= N whenever the slice
\* is rendered
C1_IndexBounds ==
    Called =>
        /\ 0 <= upd.start_idx
        /\ 0 <= upd.end_idx /\ upd.end_idx <= upd.n
        /\ (upd.start_idx <= upd.n) <=> (upd.end_idx >= upd.start_idx)
        /\ Rendered => upd.start_idx < upd.end_idx
        /\ Len(upd.visible) = Max(0, upd.end_idx - upd.start_idx)

\* a scrolled window whose end is clamped to the buffer
C1_Witness ==
    /\ Rendered
    /\ upd.start_idx > 0
    /\ upd.end_idx = upd.n
    /\ upd.pos + 5000 > DurationMs(upd.n, Val(sr))

\* C2: the window rendered for position p is [start, start + 10 s), start = 0 for
\* p < 5 s and p - 5 s otherwise; the start is never negative and the width is
\* always 10 s
C2_Window ==
    /\ RLe(R(0), xlim[1])
    /\ RSub(xlim[2], xlim[1]) = R(10)
    /\ Rendered =>
          LET start == IF upd.pos < 5000 THEN R(0) ELSE Q(upd.pos - 5000, 1000)
          IN  xlim = <<start, RAdd(start, R(10))>>

C2_Witness == Rendered /\ upd.pos > 5000 /\ xlim[1] # R(0)

\* C3: after a render the vertical bounds are (-1.1 peak, +1.1 peak) for the peak
\* absolute amplitude of the slice when it is not zero, and the bounds held before
\* the call when the slice is all zero
C3_VerticalBounds ==
    Rendered =>
        LET v == upd.visible
            scaled(i) == RMul(Q(11, 10), RAbs(v[i]))
        IN  IF \E i \in 1..Len(v) : v[i] # R(0)
            THEN /\ ylim[1] = RNeg(ylim[2])
                 /\ \A i \in 1..Len(v) : RLe(scaled(i), ylim[2])
                 /\ \E i \in 1..Len(v) : scaled(i) = ylim[2]
            ELSE ylim = upd.ylim_before

\* an all-zero slice rendered while the bounds are those of an earlier, louder slice
C3_Witness ==
    /\ Rendered
    /\ \A i \in 1..Len(upd.visible) : upd.visible[i] = R(0)
    /\ ylim # <<Q(-11, 10), Q(11, 10)>>

\* C4: a positionChanged whose update_plot finds fewer than 2 samples in range, or
\* no buffer, changes nothing
C4_NoUpdate ==
    [][(last'.op = "positionChanged" /\ upd'.outcome \in {"short", "no_buffer"})
          => UNCHANGED <<samples, sr, xlim, ylim, line, playhead, slider, status,
                         player, bg_pil, bg_image, theme>>]_vars

\* a position whose window holds fewer than 2 samples, over a plot that shows data
C4_Witness ==
    /\ last.op = "positionChanged"
    /\ upd.outcome = "short"
    /\ Len(line.y) >= 2
    /\ slider.value # upd.pos

\* the image's rectangle lies inside the axes bounds and is centred in them
Placed(extent) ==
    /\ RLe(xlim[1], extent[1]) /\ RLe(extent[2], xlim[2])
    /\ RLe(ylim[1], extent[3]) /\ RLe(extent[4], ylim[2])
    /\ RAdd(extent[1], extent[2]) = RAdd(xlim[1], xlim[2])
    /\ RAdd(extent[3], extent[4]) = RAdd(ylim[1], ylim[2])

\* C5 as stated: in the state a completed update_plot leaves, a present
\* background image lies inside the current axes bounds, centred
C5_Original ==
    (AfterUpdatePlot /\ ~IsNone(bg_image)) => Placed(Val(bg_image))

\* C6: the placed rectangle has the image's ratio: target_w * ih = target_h * iw
C6_AspectRatio ==
    ~IsNone(bg_image) =>
        LET e == Val(bg_image)
            target_w == RSub(e[2], e[1])
            target_h == RSub(e[4], e[3])
            iw == Val(bg_pil)[1]
            ih == Val(bg_pil)[2]
        IN  RMul(target_w, R(ih)) = RMul(target_h, R(iw))

\* an image placed in axes it fills on neither axis alone by accident: the
\* rectangle is narrower than the window
C6_Witness ==
    /\ ~IsNone(bg_image)
    /\ RLt(RSub(Val(bg_image)[2], Val(bg_image)[1]), RSub(xlim[2], xlim[1]))
    /\ Rendered /\ upd.pos > 0

Count(calls, decoder) == Cardinality({i \in DOMAIN calls : calls[i] = decoder})

\* C7: a load tries librosa exactly once, and moviepy exactly once if and only if
\* librosa failed; the result is the null pair if and only if both failed, and
\* otherwise the (mono) samples and the rate of the first decoder that succeeded
C7_Decoders ==
    (last.op = "load_file" /\ last.path # "") =>
        LET first == librosa_load(last.path)
            second == AudioFileClip(last.path)
        IN  /\ Count(last.calls, "librosa") = 1
            /\ last.calls[1] = "librosa"
            /\ Count(last.calls, "moviepy") = (IF IsNone(first) THEN 1 ELSE 0)
            /\ Len(last.calls) = Count(last.calls, "librosa") + Count(last.calls, "moviepy")
            /\ ~last.assigned <=> (IsNone(first) /\ IsNone(second))
            /\ (last.assigned /\ ~IsNone(first)) =>
                   /\ samples = Some(Val(first).y)
                   /\ sr = Some(Val(first).sr)
            /\ (last.assigned /\ IsNone(first)) =>
                   /\ Len(Val(samples)) = Len(Val(second).arr)
                   /\ \A i \in 1..Len(Val(samples)) :
                          RMul(Val(samples)[i], R(Len(Val(second).arr[i])))
                              = Sum(Val(second).arr[i])
                   /\ R(Val(sr)) = Val(second).fps

\* a load that fell back to the second decoder and got its samples
C7_Witness ==
    /\ last.op = "load_file"
    /\ last.calls = <<"librosa", "moviepy">>
    /\ last.assigned

\* C8 as stated: load_file never assigns a new buffer while the player is playing
C8_Original ==
    ~(last.op = "load_file" /\ last.assigned /\ last.state_before = "Playing")

\* C8 amended: only load_file replaces the buffer, and it may do so while the
\* player is playing; its setSource then stops playback, so a load that assigned a
\* buffer leaves the player stopped on the loaded file, and whenever the player
\* is playing the buffer is the decoding of the player's source
C8_ReplacedThenStopped ==
    [][/\ samples' # samples => (last'.op = "load_file" /\ last'.assigned)
       /\ (last'.op = "load_file" /\ last'.assigned)
              => (player'.state = "Stopped" /\ player'.source = last'.path)
       /\ player'.state = "Playing"
              => samples' = process_audio(player'.source).samples]_vars

\* a load that replaced the buffer of a playing player
C8_Witness ==
    /\ last.op = "load_file"
    /\ last.assigned
    /\ last.state_before = "Playing"
    /\ player.state = "Stopped"

\* C9 as stated: every failure in load_image ends with the failure status, and
\* leaves the buffer, the sample rate and the player as they were
C9_Original ==
    [][(last'.op = "load_image" /\ last'.path # "" /\ last'.fail # "none")
          => /\ status'[1] = "Failed to apply image"
             /\ UNCHANGED <<samples, sr, player>>]_vars

\* C9 amended: a failure while opening the image or applying the theme ends with
\* the failure status; a failure while applying the background is swallowed: the
\* background stays as it was and the status reports success; in every case the
\* buffer, the sample rate and the player are as they were
C9_ImageFailure ==
    [][last'.op = "load_image"
          => /\ UNCHANGED <<samples, sr, player>>
             /\ last'.path # "" =>
                    status'[1] = (IF last'.fail \in {"open", "theme"}
                                  THEN "Failed to apply image" ELSE "Image applied")
             /\ (last'.path # "" /\ last'.fail = "background")
                    => UNCHANGED <<bg_pil, bg_image>>]_vars

\* a theme failure reported while audio is loaded and playing
C9_Witness ==
    /\ last.op = "load_image"
    /\ last.fail \in {"open", "theme"}
    /\ status[1] = "Failed to apply image"
    /\ player.state = "Playing"
    /\ ~IsNone(samples)

\* what a load leaves alone when it is cancelled or decoding fails
LoadKeeps ==
    UNCHANGED <<samples, sr, player, slider, line, xlim, ylim, playhead,
                bg_pil, bg_image, theme>>

\* what a successful load replaces: buffer and rate together, and the slider
LoadReplaces ==
    LET r == process_audio(last'.path)
    IN  /\ samples' = r.samples /\ sr' = r.sr
        /\ player'.source = last'.path
        /\ slider' = [min |-> 0, value |-> 0,
                      max |-> (Len(Val(r.samples)) * 1000) \div Val(r.sr)]
        /\ upd'.pos = 0

\* C10 as stated: a cancelled or failed load changes nothing but the status; a
\* successful one replaces buffer and rate, sets the slider to
\* [0, floor(N / sr * 1000)] at 0 and renders the plot for position 0
C10_Original ==
    [][last'.op = "load_file"
          => IF last'.assigned
             THEN /\ LoadReplaces
                  /\ upd'.outcome = "rendered"
                  /\ line'.y = Slice(Val(samples'), 0, 10 * Val(sr'))
             ELSE /\ LoadKeeps
                  /\ status' = (IF last'.path = "" THEN status
                                ELSE <<"Failed to load", last'.path>>)]_vars

\* C10 amended: as stated, except that the plot is rendered for position 0 only
\* when the first window of the new buffer holds at least 2 samples; otherwise
\* update_plot(0) returns early and the plot stays as it was
C10_LoadAtomic ==
    [][last'.op = "load_file"
          => IF last'.assigned
             THEN /\ LoadReplaces
                  /\ IF Min(Len(Val(samples')), 10 * Val(sr')) >= 2
                     THEN /\ upd'.outcome = "rendered"
                          /\ line'.y = Slice(Val(samples'), 0, 10 * Val(sr'))
                          /\ xlim' = <<R(0), R(10)>>
                          /\ playhead' = R(0)
                     ELSE /\ upd'.outcome = "short"
                          /\ UNCHANGED <<line, xlim, ylim, playhead, bg_image>>
             ELSE /\ LoadKeeps
                  /\ status' = (IF last'.path = "" THEN status
                                ELSE <<"Failed to load", last'.path>>)]_vars

\* a failed load over a loaded buffer
C10_Witness ==
    /\ last.op = "load_file"
    /\ last.path # ""
    /\ ~last.assigned
    /\ ~IsNone(samples)
    /\ status[1] = "Failed to load"

=============================================================================
